---- MODULE Spec2Model ----
(***************************************************************************)
(* redux-neat: create(initialState, {handlers, getters}) flattens a nested *)
(* tree of handlers into a dot-keyed table, builds a reducer over it, puts *)
(* the reducer in a redux store and builds a tree of dispatching actions.  *)
(*                                                                         *)
(* JavaScript values are modelled as tagged records, objects live in a     *)
(* heap (a reference is an index into it), and a JavaScript object whose   *)
(* keys matter in insertion order (a handlers tree, the flat handlers, the *)
(* actions tree) is a sequence of [key, val] entries with distinct keys.   *)
(***************************************************************************)
EXTENDS Integers, Sequences, FiniteSets, TLC

VARIABLES
  initialState,  \* create's first argument: a JavaScript value
  handlers,      \* create's config.handlers: the nested tree of handlers
  built,         \* which of flat / actions / selectors have been built
  flat,          \* flattenHandlers(handlers), the table the reducer closes over
  actions,       \* makeActions(store, handlers)
  heap,          \* the objects allocated so far; Ref(i) denotes heap[i]
  state,         \* the store's current state
  calls,         \* number of dispatches made after create
  last,          \* what the latest call did (for the properties)
  expected,      \* the value the handlers called so far denote, as a term
  getters,       \* create's config.getters: the nested tree of getters
  selectors,     \* makeSelectors(store, getters)
  read,          \* what the latest call of a selector returned
  env,           \* create's config.withDevTools and the global window
  composeEnhancers,  \* what getComposeEnhancers gave create
  isDispatching, \* the store's flag: its reducer is running
  held,          \* the values the store has held, each with its content then
  state2         \* the state of a second store, created from the same arguments

vars == <<initialState, handlers, built, flat, actions, heap, state,
          calls, last, expected, getters, selectors, read,
          env, composeEnhancers, isDispatching, held, state2>>

(***************************************************************************)
(* Bounds                                                                  *)
(***************************************************************************)
MaxCalls == 3   \* dispatches per run
MaxArg == 1     \* handler arguments are drawn from 0..MaxArg
MaxNodes == 3   \* keys (at all levels together) of an enumerated handlers tree

SEP == "."

\* the depth the types Handlers and Getters allow
TypeDepth == 5

(***************************************************************************)
(* JavaScript values and terms                                             *)
(***************************************************************************)
Undefined == [t |-> "undefined"]
Null == [t |-> "null"]
JSTrue == [t |-> "boolean", b |-> TRUE]
JSFalse == [t |-> "boolean", b |-> FALSE]
Num(n) == [t |-> "number", n |-> n]
Ref(r) == [t |-> "object", ref |-> r]
\* a term is a value written out: an object is given by its properties
Obj(props) == [t |-> "object", props |-> props]

\* the truthiness the || operator tests
Truthy(v) ==
  CASE v.t = "undefined" -> FALSE
    [] v.t = "null" -> FALSE
    [] v.t = "number" -> v.n # 0
    [] v.t = "boolean" -> v.b
    [] OTHER -> TRUE

\* the content of a value: the term it denotes in heap h
RECURSIVE Content(_, _)
Content(h, v) ==
  IF v.t = "object"
    THEN Obj([k \in DOMAIN h[v.ref] |-> Content(h, h[v.ref][k])])
    ELSE v

\* the references reachable from a value
RECURSIVE Reach(_, _)
Reach(h, v) ==
  IF v.t = "object"
    THEN {v.ref} \cup UNION {Reach(h, h[v.ref][k]) : k \in DOMAIN h[v.ref]}
    ELSE {}

\* allocate a term: fresh objects, children first; [heap, val]
\* the object r.obj put at the end of r.heap
NewObject(r) == [heap |-> Append(r.heap, r.obj), val |-> Ref(Len(r.heap) + 1)]

RECURSIVE Alloc(_, _), AllocProps(_, _, _, _), AllocProp(_, _, _, _, _),
          AllocRest(_, _, _, _, _)
Alloc(h, term) ==
  IF term.t = "object"
    THEN NewObject(AllocProps(h, term.props, DOMAIN term.props, <<>>))
    ELSE [heap |-> h, val |-> term]
\* the properties todo of props allocated, acc being those done
AllocProps(h, props, todo, acc) ==
  IF todo = {} THEN [heap |-> h, obj |-> acc]
  ELSE AllocProp(h, props, todo, acc, CHOOSE x \in todo : TRUE)
AllocProp(h, props, todo, acc, k) ==
  AllocRest(props, todo, acc, k, Alloc(h, props[k]))
\* property k is allocated as c; then the others
AllocRest(props, todo, acc, k, c) ==
  AllocProps(c.heap, props, todo \ {k}, acc @@ (k :> c.val))

(***************************************************************************)
(* utils: isFunction, deepClone                                            *)
(***************************************************************************)
\* a value of a handlers tree: a function or a nested object
Fn(f) == [tag |-> "Function", fn |-> f]
Node(kids) == [tag |-> "Object", kids |-> kids]
\* an async function and a generator function: {}.toString.call gives
\* '[object AsyncFunction]' and '[object GeneratorFunction]' for them, and
\* for..in finds no key in them
AsyncFn(f) == [tag |-> "AsyncFunction", fn |-> f, kids |-> <<>>]
GeneratorFn(f) == [tag |-> "GeneratorFunction", fn |-> f, kids |-> <<>>]

\* typeof x === 'function'
Callable(x) == x.tag \in {"Function", "AsyncFunction", "GeneratorFunction"}

\* !!x && {}.toString.call(x) === '[object Function]'
isFunction(x) == x.tag = "Function"

\* JSON.stringify: a property whose value is undefined is left out, and
\* stringify(undefined) is undefined
RECURSIVE JSONstringify(_, _)
JSONstringify(h, v) ==
  IF v.t = "object"
    THEN LET o == h[v.ref]
             keep == {k \in DOMAIN o : o[k].t # "undefined"}
         IN  Obj([k \in keep |-> JSONstringify(h, o[k])])
    ELSE v

\* JSON.parse: builds fresh objects; a text that is no JSON throws
Parsed(a) == [threw |-> FALSE, heap |-> a.heap, val |-> a.val]
JSONparse(h, text) ==
  IF text.t = "undefined"
    THEN [threw |-> TRUE, heap |-> h, val |-> Undefined]
    ELSE Parsed(Alloc(h, text))

\* a copy of the top object only: {...state}
deepCloneShallow(h, v) ==
  IF v.t = "object"
    THEN [threw |-> FALSE, heap |-> Append(h, h[v.ref]), val |-> Ref(Len(h) + 1)]
    ELSE [threw |-> FALSE, heap |-> h, val |-> v]

\* no copy at all
deepCloneNone(h, v) == [threw |-> FALSE, heap |-> h, val |-> v]

deepClone(h, v) == JSONparse(h, JSONstringify(h, v))

(***************************************************************************)
(* JavaScript objects as entry sequences                                   *)
(***************************************************************************)
Entry(k, v) == [key |-> k, val |-> v]
KeysOf(obj) == {obj[i].key : i \in 1..Len(obj)}
HasKey(obj, k) == k \in KeysOf(obj)
Get(obj, k) == obj[CHOOSE i \in 1..Len(obj) : obj[i].key = k].val

\* obj[k] = v: an existing key keeps its place, a new key goes last
SetKey(obj, k, v) ==
  IF HasKey(obj, k)
    THEN [i \in 1..Len(obj) |-> IF obj[i].key = k THEN Entry(k, v) ELSE obj[i]]
    ELSE Append(obj, Entry(k, v))

\* {...a, ...b}
RECURSIVE Spread(_, _)
Spread(a, b) ==
  IF b = <<>> THEN a
  ELSE Spread(SetKey(a, Head(b).key, Head(b).val), Tail(b))

(***************************************************************************)
(* flattenHandlers                                                         *)
(***************************************************************************)
\* the separator forgotten
flatPrefixNoSep(prefix, name) == prefix \o name

\* the name always joined to the prefix by a separator
flatKeyJoined(prefix, name) == prefix \o SEP \o name

\* result[prefix + name]
flatKey(prefix, name) == prefix \o name
\* the prefix of the recursive call: prefix + name + '.'
flatPrefix(prefix, name) == prefix \o name \o SEP

RECURSIVE flattenHandlers(_, _), flattenLoop(_, _, _)
\* the for..in loop over fns, result being the accumulator
flattenLoop(fns, prefix, result) ==
  IF fns = <<>> THEN result
  ELSE LET name == Head(fns).key
           fn == Head(fns).val
       IN  flattenLoop(Tail(fns), prefix,
             IF isFunction(fn)
               THEN SetKey(result, flatKey(prefix, name), fn)
               ELSE Spread(result, flattenHandlers(fn.kids, flatPrefix(prefix, name))))
\* nothing kept below the depth of the types (for keys of one character)
flattenHandlersCapped(fns, prefix) ==
  IF Len(prefix) >= 2 * TypeDepth THEN <<>> ELSE flattenLoop(fns, prefix, <<>>)

flattenHandlers(fns, prefix) == flattenLoop(fns, prefix, <<>>)

(***************************************************************************)
(* makeActions                                                             *)
(***************************************************************************)
\* the closure fn of makeActions: it captures prefix + name
Handle(type) == [tag |-> "Function", type |-> type]

\* the separator forgotten
actionPrefixNoSep(prefix, name) == prefix \o name

\* {type: prefix + name, args}
actionType(prefix, name) == prefix \o name
\* the prefix of the recursive call: prefix + name + '.'
actionPrefix(prefix, name) == prefix \o name \o SEP

RECURSIVE makeActions(_, _), makeActionsLoop(_, _, _)
makeActionsLoop(hs, prefix, acts) ==
  IF hs = <<>> THEN acts
  ELSE LET name == Head(hs).key
           handler == Head(hs).val
       IN  makeActionsLoop(Tail(hs), prefix,
             SetKey(acts, name,
               IF isFunction(handler)
                 THEN Handle(actionType(prefix, name))
                 ELSE Node(makeActions(handler.kids, actionPrefix(prefix, name)))))
makeActions(hs, prefix) == makeActionsLoop(hs, prefix, <<>>)

(***************************************************************************)
(* makeSelectors.ts                                                        *)
(***************************************************************************)
\* the function built for a getter: it closes over the getter
Selector(getter) == [tag |-> "Function", getter |-> getter]

\* the nested getters left out
makeSelectorsTop(gs) ==
  [i \in 1..Len(gs) |->
     Entry(gs[i].key,
           IF isFunction(gs[i].val) THEN Selector(gs[i].val.fn) ELSE Node(<<>>))]

RECURSIVE makeSelectors(_), makeSelectorsLoop(_, _)
makeSelectorsLoop(gs, sels) ==
  IF gs = <<>> THEN sels
  ELSE makeSelectorsLoop(Tail(gs),
         SetKey(sels, Head(gs).key,
           IF isFunction(Head(gs).val)
             THEN Selector(Head(gs).val.fn)
             ELSE Node(makeSelectors(Head(gs).val.kids))))
\* the store argument is not used
makeSelectors(gs) == makeSelectorsLoop(gs, <<>>)

(***************************************************************************)
(* Handlers: the functions the setups below register                       *)
(***************************************************************************)
GetProp(h, v, k) == h[v.ref][k]
SetProp(h, v, k, x) == [h EXCEPT ![v.ref] = [@ EXCEPT ![k] = x]]
\* state[k] += d
AddProp(h, v, k, d) == SetProp(h, v, k, Num(GetProp(h, v, k).n + d))
Done(h) == [heap |-> h, ret |-> Undefined, threw |-> FALSE]
Returns(h, x) == [heap |-> h, ret |-> x, threw |-> FALSE]
ReturnsNew(a) == [heap |-> a.heap, ret |-> a.val, threw |-> FALSE]
Throws(h) == [heap |-> h, ret |-> Undefined, threw |-> TRUE]

\* store.dispatch called while the reducer runs: redux throws ("Reducers may
\* not dispatch actions."), whatever the action; [heap, threw]
dispatchInReducer(h) == [heap |-> h, threw |-> TRUE]
\* a handler ending by a call that may throw
Ends(n) == [heap |-> n.heap, ret |-> Undefined, threw |-> n.threw]

\* number of parameters after state
Arity(f) ==
  CASE f \in {"add", "substract", "addRet"} -> 1
    [] f = "addMultiple" -> 2
    [] OTHER -> 0

\* calling handler f with (s, ...args) in heap h: [heap, ret, threw]
Apply(f, h, s, args) ==
  CASE f = "increment" -> Done(AddProp(h, s, "value", 1))
    [] f = "decrement" -> Done(AddProp(h, s, "value", -1))
    [] f = "reset" -> Done(SetProp(h, s, "value", Num(0)))
    [] f = "add" -> Done(AddProp(h, s, "value", args[1].n))
    [] f = "substract" -> Done(AddProp(h, s, "value", -args[1].n))
    [] f = "addMultiple" -> Done(AddProp(h, s, "count", args[1].n + args[2].n))
    [] f = "birthday" -> Done(AddProp(h, GetProp(h, s, "user"), "age", 1))
    [] f = "resetNew" -> ReturnsNew(Alloc(h, Obj([count |-> Num(0), user |-> Null])))
    [] f = "incrementN" -> Returns(h, Num(s.n + 1))
    [] f = "resetN" -> Returns(h, Num(0))
    [] f = "fail" -> Throws(AddProp(h, s, "value", 1))
    \* s => {}
    [] f = "noop" -> Done(h)
    \* s => ({value: s.value + 1})
    [] f = "incrementNew" ->
         ReturnsNew(Alloc(h, Obj([value |-> Num(GetProp(h, s, "value").n + 1)])))
    \* (s, n) => { s.value += n; return s }
    [] f = "addRet" -> Returns(AddProp(h, s, "value", args[1].n), s)
    \* () => initialState
    [] f = "resetInitial" -> Returns(h, initialState)
    \* s => { s.value++; actions.ok() }
    [] f = "reenter" -> Ends(dispatchInReducer(AddProp(h, s, "value", 1)))
    \* s => { s.value++; try { actions.ok() } catch {}; s.value++ }
    [] f = "reenterCaught" ->
         Done(AddProp(dispatchInReducer(AddProp(h, s, "value", 1)).heap, s, "value", 1))

(***************************************************************************)
(* makeReducer                                                             *)
(***************************************************************************)
\* the default left out
defaultStateNone(init, stateArg) == stateArg

\* (state = initialState, action) => ...: the default parameter
defaultState(init, stateArg) == IF stateArg = Undefined THEN init ELSE stateArg

\* the getters of the tests and the README, by name
GetterArity(g) == IF g = "countPlusN" THEN 1 ELSE 0
ApplyGetter(g, h, s, args) ==
  CASE g = "getValue" -> GetProp(h, s, "value")
    [] g = "count" -> GetProp(h, s, "count")
    [] g = "countPlusN" -> Num(GetProp(h, s, "count").n + args[1].n)
    [] g = "age" -> GetProp(h, GetProp(h, s, "user"), "age")

\* the selector applied to the state the store had when it was built
useSelectorStale(h, provided, g, args) == ApplyGetter(g, h, initialState, args)

\* the selector applied to the state of the store create made
useSelectorOwn(h, provided, g, args) == ApplyGetter(g, h, state, args)

\* react-redux: useSelector(state => getter(state, ...args)) gives the
\* selector applied to the state of the store of the enclosing Provider
useSelector(h, provided, g, args) == ApplyGetter(g, h, provided, args)

\* the handler's result ignored
orStateCopy(ret, copy) == copy

\* the handler's result taken as it is
orStateRet(ret, copy) == ret

\* handlers[name](state, ...action.args) || state
orState(ret, copy) == IF Truthy(ret) THEN ret ELSE copy

\* what one run of the reducer did; state is its return value unless threw,
\* passed the arguments the handler was called with
Outcome(h, st, threw, matched, invoked, passed, ret) ==
  [heap |-> h, state |-> st, threw |-> threw, matched |-> matched,
   invoked |-> invoked, passed |-> passed,
   copy |-> IF passed = <<>> THEN Undefined ELSE passed[1], ret |-> ret]

\* the copy made before the loop, and returned when no name matched
noMatchCloned(h, st) ==
  Outcome(deepClone(h, st).heap, deepClone(h, st).val, FALSE, FALSE, <<>>,
          <<>>, Undefined)

\* no name matched: return state
noMatch(h, st) == Outcome(h, st, FALSE, FALSE, <<>>, <<>>, Undefined)

\* the arguments in reverse order
handlerArgsReversed(copy, args) ==
  <<copy>> \o [i \in 1..Len(args) |-> args[Len(args) + 1 - i]]

\* (state, ...action.args): the arguments of the handler's call
handlerArgs(copy, args) == <<copy>> \o args

\* state = handlers[name](state, ...action.args) || state; return state
\* (passed are the handler's arguments, r what the call of handler f did)
called(f, st, passed, r) ==
  IF r.threw
    THEN Outcome(r.heap, st, TRUE, TRUE, <<f>>, passed, Undefined)
    ELSE Outcome(r.heap, orState(r.ret, passed[1]), FALSE, TRUE, <<f>>,
                 passed, r.ret)

\* the handler called with passed in heap h
invoke(f, st, h, passed) ==
  called(f, st, passed, Apply(f, h, passed[1], Tail(passed)))

\* state = deepClone(state), c being what deepClone did, then the handler
matched(f, h, st, args, c) ==
  IF c.threw
    THEN Outcome(h, st, TRUE, TRUE, <<>>, <<>>, Undefined)
    ELSE invoke(f, st, c.heap, handlerArgs(c.val, args))

RECURSIVE reducerLoop(_, _, _, _)
\* the for..in loop over the flat handlers
reducerLoop(fl, h, st, action) ==
  IF fl = <<>> THEN noMatch(h, st)
  ELSE IF action.type = Head(fl).key
    THEN matched(Head(fl).val.fn, h, st, action.args, deepClone(h, st))
    ELSE reducerLoop(Tail(fl), h, st, action)

\* the reducer makeReducer(init, fl) returns, applied to (stateArg, action)
makeReducer(init, fl, h, stateArg, action) ==
  reducerLoop(fl, h, defaultState(init, stateArg), action)

(***************************************************************************)
(* The redux store                                                         *)
(***************************************************************************)
InitAction == [type |-> "@@redux/INIT", args |-> <<>>]

\* store.dispatch(action): currentState = reducer(currentState, action); an
\* exception of the reducer leaves currentState as it was
\* the reducer's result not stored
dispatchedLater(cur, r) ==
  [heap |-> r.heap, state |-> cur,
   threw |-> r.threw, handlerThrew |-> r.threw /\ r.invoked # <<>>,
   matched |-> r.matched, invoked |-> r.invoked, copy |-> r.copy,
   passed |-> r.passed, ret |-> r.ret]

\* r is what the reducer did
dispatched(cur, r) ==
  [heap |-> r.heap, state |-> IF r.threw THEN cur ELSE r.state,
   threw |-> r.threw, handlerThrew |-> r.threw /\ r.invoked # <<>>,
   matched |-> r.matched, invoked |-> r.invoked, copy |-> r.copy,
   passed |-> r.passed, ret |-> r.ret]
dispatch(init, fl, h, cur, action) ==
  dispatched(cur, makeReducer(init, fl, h, cur, action))

\* if (isDispatching) throw new Error('Reducers may not dispatch actions.')
rejected(h, cur) ==
  [heap |-> h, state |-> cur, threw |-> TRUE, handlerThrew |-> FALSE,
   matched |-> FALSE, invoked |-> <<>>, copy |-> Undefined,
   passed |-> <<>>, ret |-> Undefined]
storeDispatch(busy, init, fl, h, cur, action) ==
  IF busy THEN rejected(h, cur) ELSE dispatch(init, fl, h, cur, action)

\* the flag lowered only when the reducer returns
afterDispatchNoFinally(r) == r.threw

\* try { isDispatching = true; ... } finally { isDispatching = false }
afterDispatch(r) == FALSE

(***************************************************************************)
(* create                                                                  *)
(***************************************************************************)
\* redux's compose and the one the devtools extension puts on window
compose == [t |-> "function", name |-> "compose"]
DevToolsCompose ==
  [t |-> "function", name |-> "__REDUX_DEVTOOLS_EXTENSION_COMPOSE__"]
\* a global window whose __REDUX_DEVTOOLS_EXTENSION_COMPOSE__ is ext
Window(ext) == [t |-> "window", ext |-> ext]

\* what evaluating an expression gives
Evaluated(v) == [threw |-> FALSE, value |-> v]
ReferenceError == [threw |-> TRUE, value |-> Undefined]

\* {withDevTools = true}: the default of the destructured config
withDevToolsDefault(w) == IF w = Undefined THEN JSTrue ELSE w

\* the test for window left out
hasWindowAssumed(window) == TRUE

\* typeof window !== 'undefined'
hasWindow(window) == window # Undefined

\* (window as any).__REDUX_DEVTOOLS_EXTENSION_COMPOSE__: reading a global
\* that does not exist throws
extensionCompose(window) ==
  IF window = Undefined THEN ReferenceError ELSE Evaluated(window.ext)

\* if (... && x) return x; return compose
orCompose(x) ==
  IF x.threw \/ Truthy(x.value) THEN x ELSE Evaluated(compose)

getComposeEnhancers(withDevTools, window) ==
  IF Truthy(withDevTools) /\ hasWindow(window)
    THEN orCompose(extensionCompose(window))
    ELSE Evaluated(compose)

\* config is {handlers, getters, withDevTools}; window is the global;
\* fl are the flat handlers, store what legacy_createStore's dispatch did
created(config, window, fl, store) ==
  [flat |-> fl, heap |-> store.heap, state |-> store.state,
   actions |-> makeActions(config.handlers, ""),
   selectors |-> makeSelectors(config.getters),
   composeEnhancers |->
     getComposeEnhancers(withDevToolsDefault(config.withDevTools), window)]
createStore(init, h, config, window, fl) ==
  created(config, window, fl, dispatch(init, fl, h, Undefined, InitAction))
create(init, h, config, window) ==
  createStore(init, h, config, window, flattenHandlers(config.handlers, ""))

(***************************************************************************)
(* The actions tree as its user sees it                                    *)
(***************************************************************************)
\* the key sequences that lead to a function of a tree
RECURSIVE LeafPaths(_)
LeafPaths(tree) ==
  UNION {IF Callable(tree[i].val)
           THEN {<<tree[i].key>>}
           ELSE {<<tree[i].key>> \o p : p \in LeafPaths(tree[i].val.kids)}
         : i \in 1..Len(tree)}

\* tree.k1.k2...kn
RECURSIVE At(_, _)
At(tree, keys) ==
  IF Len(keys) = 1 THEN Get(tree, keys[1])
  ELSE At(Get(tree, keys[1]).kids, Tail(keys))

\* the body of a handle called with args: store.dispatch({type, args})
request(handle, args) == [type |-> handle.type, args |-> args]

\* store.dispatch returns the action it was given
dispatchReturn(action) == action

\* an expression body: (...args) => store.dispatch({...})
handleReturnDispatch(d) == d

\* the handle's body is a block without return: it returns undefined
handleReturn(d) == Undefined

ArgVals == {Num(n) : n \in 0..MaxArg}
ArgLists(n) == [1..n -> ArgVals]

(***************************************************************************)
(* Setups: the arguments of create                                         *)
(***************************************************************************)
Setups ==
  [ counter |->     \* the integration test
      [initial |-> Obj([value |-> Num(0)]),
       handlers |-> <<
         Entry("math", Node(<<Entry("add", Fn("add")),
                              Entry("substract", Fn("substract"))>>)),
         Entry("counter", Node(<<Entry("increment", Fn("increment")),
                                 Entry("decrement", Fn("decrement")),
                                 Entry("reset", Fn("reset"))>>)) >>,
       getters |-> <<Entry("getValue", Fn("getValue"))>>],
    typed |->       \* a returning handler beside nested mutating ones
      [initial |-> Obj([count |-> Num(0), user |-> Null]),
       handlers |-> <<
         Entry("reset", Fn("resetNew")),
         Entry("noop", Fn("noop")),
         Entry("counter", Node(<<Entry("addMultiple", Fn("addMultiple"))>>)) >>,
       getters |-> <<Entry("count", Fn("count")),
                     Entry("countPlusN", Fn("countPlusN"))>>],
    nested |->      \* a state with an object in it
      [initial |-> Obj([user |-> Obj([age |-> Num(0)])]),
       handlers |-> <<
         Entry("user", Node(<<Entry("birthday", Fn("birthday"))>>)),
         Entry("settings", Node(<<>>)) >>,
       getters |-> <<Entry("user", Node(<<Entry("age", Fn("age"))>>)),
                     Entry("settings", Node(<<>>))>>],
    number |->      \* a state that is a number
      [initial |-> Num(0),
       handlers |-> <<
         Entry("increment", Fn("incrementN")),
         Entry("reset", Fn("resetN")) >>,
       getters |-> <<>>],
    dotted |->      \* a key that contains the separator
      [initial |-> Obj([value |-> Num(0)]),
       handlers |-> <<
         Entry("a", Node(<<Entry("b", Fn("increment"))>>)),
         Entry("a.b", Fn("decrement")) >>,
       getters |-> <<>>],
    failing |->     \* handlers that throw, or call an action, after a change
      [initial |-> Obj([value |-> Num(0)]),
       handlers |-> <<
         Entry("ok", Fn("increment")),
         Entry("fail", Fn("fail")),
         Entry("again", Fn("reenter")),
         Entry("guarded", Fn("reenterCaught")) >>,
       getters |-> <<>>],
    returning |->   \* handlers that return the next state
      [initial |-> Obj([value |-> Num(0)]),
       handlers |-> <<
         Entry("math", Node(<<Entry("arithmetic",
                                    Node(<<Entry("add", Fn("addRet"))>>))>>)),
         Entry("counter", Node(<<Entry("increment", Fn("incrementNew")),
                                 Entry("reset", Fn("resetInitial"))>>)) >>,
       getters |-> <<Entry("getValue", Fn("getValue"))>>],
    optional |->    \* a state with a property that is undefined
      [initial |-> Obj([value |-> Num(0), note |-> Undefined]),
       handlers |-> <<
         Entry("noop", Fn("noop")),
         Entry("increment", Fn("increment")) >>,
       getters |-> <<>>],
    deep |->        \* a handler nested deeper than the types allow
      [initial |-> Obj([value |-> Num(0)]),
       handlers |-> <<
         Entry("a", Node(<<Entry("b", Node(<<Entry("c", Node(<<Entry("d",
           Node(<<Entry("e", Node(<<Entry("f", Fn("increment"))>>))>>))>>))>>))>>)) >>,
       getters |-> <<>>] ]

\* the config made of a setup and a withDevTools (undefined when left out)
Config(setup, w) ==
  [handlers |-> setup.handlers, getters |-> setup.getters, withDevTools |-> w]

\* the environments of create: config.withDevTools left out, true or false,
\* and no window, a window without the extension, a window with it
Envs ==
  [withDevTools : {Undefined, JSTrue, JSFalse},
   window : {Undefined, Window(Undefined), Window(DevToolsCompose)}]
\* the environment of the tests: the option left out, no window
TestEnv == [withDevTools |-> Undefined, window |-> Undefined]
\* the README's nested setup is created in every environment, the others
\* in that of the tests
EnvsOf(s) == IF s = "nested" THEN Envs ELSE {TestEnv}

\* action types a user may hand to store.dispatch that the setups do not handle
RawTypes == {"missing", "a", "counter"}

(***************************************************************************)
(* The value the called handlers denote                                    *)
(***************************************************************************)
\* handler f applied to a state given as a term: the term it leaves, a
\* returned value taking the place of the argument
Denoted(term, arg, r) ==
  IF r.threw THEN term
  ELSE IF r.ret # Undefined THEN Content(r.heap, r.ret)
  ELSE Content(r.heap, arg)
ApplyTo(f, term, args, a) == Denoted(term, a.val, Apply(f, a.heap, a.val, args))
ApplyTerm(f, term, args) == ApplyTo(f, term, args, Alloc(heap, term))

(***************************************************************************)
(* Specification of a setup and the calls made on it                       *)
(***************************************************************************)
NoCall ==
  [kind |-> "none", keys |-> <<>>, type |-> "", args |-> <<>>,
   submitted |-> <<>>, matched |-> FALSE, invoked |-> <<>>,
   passed |-> <<>>, copy |-> Undefined, ret |-> Undefined, threw |-> FALSE,
   handlerThrew |-> FALSE, prev |-> Undefined, prevContent |-> Undefined,
   prevObjects |-> 0, returned |-> Undefined,
   everFailed |-> FALSE, failedBefore |-> FALSE,
   beforeFailure |-> Undefined, beforeFailureContent |-> Undefined]

NoRead ==
  [keys |-> <<>>, args |-> <<>>, provider |-> "", result |-> Undefined]

\* the stores a component may find itself under: the one create returned,
\* or another one, created from the same arguments and left alone
Providers == {"own", "other"}
\* the state of the store of the enclosing Provider
Provided(p) == IF p = "own" THEN state ELSE state2

\* a value the store holds, with its content
Snapshot(h, v) == [val |-> v, content |-> Content(h, v)]

\* create(init, setup), in environment e, returned c; a second create with
\* the same arguments returns a store in the same state
Created(setup, e, init, c) ==
  /\ env = e
  /\ composeEnhancers = c.composeEnhancers
  /\ initialState = init
  /\ handlers = setup.handlers
  /\ getters = setup.getters
  /\ built = {"flat", "actions", "selectors"}
  /\ flat = c.flat
  /\ actions = c.actions
  /\ selectors = c.selectors
  /\ read = NoRead
  /\ heap = c.heap
  /\ state = c.state
  /\ isDispatching = FALSE
  /\ held = {Snapshot(c.heap, c.state)}
  /\ state2 = c.state
  /\ calls = 0
  /\ last = NoCall
  /\ expected = setup.initial

\* the caller's initialState is a, a value in its heap
CreateFrom(setup, e, a) ==
  Created(setup, e, a.val,
          create(a.val, a.heap, Config(setup, e.withDevTools), e.window))

Init ==
  \E s \in DOMAIN Setups : \E e \in EnvsOf(s) :
    CreateFrom(Setups[s], e, Alloc(<<>>, Setups[s].initial))

\* the store takes the action; kind, keys say who dispatched it
\* store.dispatch(action) did r
Recorded(kind, keys, args, action, returned, r) ==
  /\ heap' = r.heap
  /\ state' = r.state
  /\ calls' = calls + 1
  /\ last' = [kind |-> kind, keys |-> keys, type |-> action.type,
              args |-> args, submitted |-> <<action>>,
              matched |-> r.matched, invoked |-> r.invoked,
              passed |-> r.passed, copy |-> r.copy, ret |-> r.ret,
              threw |-> r.threw,
              handlerThrew |-> r.handlerThrew, prev |-> state,
              prevContent |-> Content(heap, state),
              prevObjects |-> Len(heap),
              returned |-> IF r.threw THEN Undefined ELSE returned,
              everFailed |-> last.everFailed \/ last.threw,
              failedBefore |-> last.threw,
              beforeFailure |-> last.prev,
              beforeFailureContent |-> last.prevContent]
  /\ read' = NoRead
  /\ isDispatching' = afterDispatch(r)
  /\ held' = held \cup {Snapshot(r.heap, r.state)}

\* returned is what the caller gets back when nothing is thrown
Dispatched(kind, keys, args, action, returned) ==
  Recorded(kind, keys, args, action, returned,
           storeDispatch(isDispatching, initialState, flat, heap, state, action))

\* a handler that serves once: its entry leaves the flat handlers
CallOnce(keys, args) ==
  /\ {"flat", "actions"} \subseteq built
  /\ calls < MaxCalls
  /\ Dispatched("handle", keys, args, request(At(actions, keys), args),
                handleReturn(dispatchReturn(request(At(actions, keys), args))))
  /\ expected' = ApplyTerm(At(handlers, keys).fn, expected, args)
  /\ flat' = SelectSeq(flat, LAMBDA e : e.key # At(actions, keys).type)
  /\ UNCHANGED <<initialState, handlers, built, actions, getters,
                 selectors, env, composeEnhancers, state2>>

\* actions.k1...kn(...args)
Call(keys, args) ==
  /\ {"flat", "actions"} \subseteq built
  /\ calls < MaxCalls
  /\ Dispatched("handle", keys, args, request(At(actions, keys), args),
                handleReturn(dispatchReturn(request(At(actions, keys), args))))
  /\ expected' = ApplyTerm(At(handlers, keys).fn, expected, args)
  /\ UNCHANGED <<initialState, handlers, built, flat, actions, getters,
                 selectors, env, composeEnhancers, state2>>

\* store.dispatch({type, args: []}) by the user of the store
DispatchRaw(type) ==
  /\ {"flat", "actions"} \subseteq built
  /\ calls < MaxCalls
  /\ Dispatched("raw", <<>>, <<>>, [type |-> type, args |-> <<>>],
                dispatchReturn([type |-> type, args |-> <<>>]))
  /\ UNCHANGED <<initialState, handlers, built, flat, actions, expected,
                 getters, selectors, env, composeEnhancers, state2>>

\* selectors.k1...kn(...args) in a component under the Provider of store p
Select(keys, args, p) ==
  /\ "selectors" \in built
  /\ read' = [keys |-> keys, args |-> args, provider |-> p,
              result |-> useSelector(heap, Provided(p),
                                     At(selectors, keys).getter, args)]
  /\ UNCHANGED <<initialState, handlers, built, flat, actions, heap, state,
                 calls, last, expected, getters, selectors, env,
                 composeEnhancers, isDispatching, held, state2>>

Next ==
  \/ \E keys \in LeafPaths(actions) :
       \E args \in ArgLists(Arity(At(handlers, keys).fn)) : Call(keys, args)
  \/ \E type \in RawTypes : DispatchRaw(type)
  \/ \E keys \in LeafPaths(selectors) :
       \E args \in ArgLists(GetterArity(At(getters, keys).fn)) :
         \E p \in Providers : Select(keys, args, p)

Spec == Init /\ [][Next]_vars

(***************************************************************************)
(* Specification of two stores created from the same arguments             *)
(***************************************************************************)
\* the setups created twice
TwoSetups == {"nested", "returning"}

\* create called twice with the same initialState object and config: both
\* stores start in the state Created gives them
InitTwo ==
  \E s \in TwoSetups :
    CreateFrom(Setups[s], TestEnv, Alloc(<<>>, Setups[s].initial))

\* the second store's dispatch did r
RecordedOther(keys, args, action, r) ==
  /\ heap' = r.heap
  /\ state2' = r.state
  /\ calls' = calls + 1
  /\ last' = [NoCall EXCEPT !.kind = "other", !.keys = keys, !.args = args,
                            !.type = action.type, !.submitted = <<action>>,
                            !.matched = r.matched, !.invoked = r.invoked,
                            !.threw = r.threw, !.prev = state2,
                            !.prevContent = Content(heap, state2)]

\* the action at keys of the second create, called with args: that create
\* built its own flat handlers and actions from the same tree
CallOther(keys, args) ==
  /\ calls < MaxCalls
  /\ RecordedOther(keys, args,
                   request(At(makeActions(handlers, ""), keys), args),
                   dispatch(initialState, flattenHandlers(handlers, ""), heap,
                            state2,
                            request(At(makeActions(handlers, ""), keys), args)))
  /\ UNCHANGED <<initialState, handlers, built, flat, actions, state,
                 expected, getters, selectors, read, env, composeEnhancers,
                 isDispatching, held>>

NextTwo ==
  \/ \E keys \in LeafPaths(actions) :
       \E args \in ArgLists(Arity(At(handlers, keys).fn)) : Call(keys, args)
  \/ \E keys \in LeafPaths(makeActions(handlers, "")) :
       \E args \in ArgLists(Arity(At(handlers, keys).fn)) :
         CallOther(keys, args)

SpecTwo == InitTwo /\ [][NextTwo]_vars

(***************************************************************************)
(* Specification of the tree builders alone, over enumerated trees         *)
(***************************************************************************)
TreeKeys == {"a", "b", "a.b"}
TreeFns == {"increment", "decrement"}

\* the trees of at most n keys, counted over all levels
RECURSIVE Forests(_)
Forests(n) ==
  IF n = 0 THEN {<<>>}
  ELSE {<<>>} \cup
       UNION {UNION {{<<Entry(k, v)>> \o rest :
                        k \in TreeKeys \ KeysOf(rest),
                        v \in {Fn(f) : f \in TreeFns}
                              \cup {Node(kids) : kids \in Forests(m)}}
                     : rest \in Forests(n - 1 - m)}
              : m \in 0..(n - 1)}

\* the kinds of function a getter can be written as
FnKinds == {"Function", "AsyncFunction", "GeneratorFunction"}

OfKind(kind, f) ==
  CASE kind = "Function" -> Fn(f)
    [] kind = "AsyncFunction" -> AsyncFn(f)
    [] kind = "GeneratorFunction" -> GeneratorFn(f)

\* the tree with its functions written as functions of the kind
RECURSIVE WrittenAs(_, _)
WrittenAs(kind, tree) ==
  [i \in 1..Len(tree) |->
     Entry(tree[i].key,
           IF Callable(tree[i].val) THEN OfKind(kind, tree[i].val.fn)
           ELSE Node(WrittenAs(kind, tree[i].val.kids)))]

\* one tree is given to the three builders, its handlers being plain
\* functions and its getters functions of one kind
InitTree ==
  /\ handlers \in Forests(MaxNodes)
  /\ getters \in {WrittenAs(kind, handlers) : kind \in FnKinds}
  /\ built = {}
  /\ flat = <<>>
  /\ actions = <<>>
  /\ selectors = <<>>
  /\ read = NoRead
  /\ env = TestEnv
  /\ composeEnhancers = Undefined
  /\ isDispatching = FALSE
  /\ held = {}
  /\ state2 = Undefined
  /\ initialState = Undefined
  /\ heap = <<>>
  /\ state = Undefined
  /\ calls = 0
  /\ last = NoCall
  /\ expected = Undefined

\* the tree given flattened in place
BuildFlatInPlace ==
  /\ "flat" \notin built
  /\ flat' = flattenHandlers(handlers, "")
  /\ handlers' = flattenHandlers(handlers, "")
  /\ built' = built \cup {"flat"}
  /\ UNCHANGED <<initialState, actions, heap, state, calls, last,
                 expected, getters, selectors, read, env, composeEnhancers,
                 isDispatching, held, state2>>

\* flattenHandlers(handlers)
BuildFlat ==
  /\ "flat" \notin built
  /\ flat' = flattenHandlers(handlers, "")
  /\ built' = built \cup {"flat"}
  /\ UNCHANGED <<initialState, handlers, actions, heap, state, calls, last,
                 expected, getters, selectors, read, env, composeEnhancers,
                 isDispatching, held, state2>>

\* makeActions(store, handlers)
BuildActions ==
  /\ "actions" \notin built
  /\ actions' = makeActions(handlers, "")
  /\ built' = built \cup {"actions"}
  /\ UNCHANGED <<initialState, handlers, flat, heap, state, calls, last,
                 expected, getters, selectors, read, env, composeEnhancers,
                 isDispatching, held, state2>>

\* makeSelectors(store, getters)
BuildSelectors ==
  /\ "selectors" \notin built
  /\ selectors' = makeSelectors(getters)
  /\ built' = built \cup {"selectors"}
  /\ UNCHANGED <<initialState, handlers, flat, actions, heap, state, calls,
                 last, expected, getters, read, env, composeEnhancers,
                 isDispatching, held, state2>>

NextTree == BuildFlat \/ BuildActions \/ BuildSelectors

SpecTree == InitTree /\ [][NextTree]_vars

(***************************************************************************)
(* Specification of create taken statement by statement, then the calls    *)
(***************************************************************************)
\* create is about to run on setup, the caller's initialState being a
BeforeCreate(setup, a) ==
  /\ env = TestEnv
  /\ composeEnhancers = Undefined
  /\ initialState = a.val
  /\ handlers = setup.handlers
  /\ getters = setup.getters
  /\ built = {}
  /\ flat = <<>>
  /\ actions = <<>>
  /\ selectors = <<>>
  /\ read = NoRead
  /\ heap = a.heap
  /\ state = Undefined
  /\ isDispatching = FALSE
  /\ held = {}
  /\ state2 = Undefined
  /\ calls = 0
  /\ last = NoCall
  /\ expected = setup.initial

InitCreate ==
  \E s \in DOMAIN Setups :
    BeforeCreate(Setups[s], Alloc(<<>>, Setups[s].initial))

\* legacy_createStore(reducer, composeEnhancers()) did store
StoreMade(store) ==
  /\ composeEnhancers' =
       getComposeEnhancers(withDevToolsDefault(env.withDevTools), env.window)
  /\ heap' = store.heap
  /\ state' = store.state
  /\ state2' = store.state
  /\ held' = {Snapshot(store.heap, store.state)}
  /\ built' = built \cup {"store"}
  /\ UNCHANGED <<initialState, handlers, flat, actions, calls, last,
                 expected, getters, selectors, read, env, isDispatching>>

\* the statements of create, in their order
StepFlat == built = {} /\ BuildFlat
StepStore ==
  /\ built = {"flat"}
  /\ StoreMade(dispatch(initialState, flat, heap, Undefined, InitAction))
StepActions == built = {"flat", "store"} /\ BuildActions
StepSelectors == built = {"flat", "store", "actions"} /\ BuildSelectors

\* create has returned
AllBuilt == {"flat", "store", "actions", "selectors"}

NextCreate ==
  \/ StepFlat
  \/ StepStore
  \/ StepActions
  \/ StepSelectors
  \/ (built = AllBuilt /\ Next)

SpecCreate == InitCreate /\ [][NextCreate]_vars

(***************************************************************************)
(* Properties                                                              *)
(***************************************************************************)
\* the keys of a path joined with the separator
RECURSIVE Join(_)
Join(keys) ==
  IF Len(keys) = 1 THEN keys[1] ELSE keys[1] \o SEP \o Join(Tail(keys))

\* a tree with its functions blanked: its keys, their order and nesting
RECURSIVE Shape(_)
Shape(tree) ==
  [i \in 1..Len(tree) |->
     Entry(tree[i].key,
           IF Callable(tree[i].val) THEN [tag |-> "Function"]
           ELSE Node(Shape(tree[i].val.kids)))]

\* C1: after any sequence of calls of actions the store's state is what the
\* called handlers, applied in call order from initialState, denote.
C1_StateIsHandlersResult == Content(heap, state) = expected

\* C2: calling the action at a leaf's position invokes that leaf's handler,
\* once, and no other handler.
C2_OwnHandlerOnce ==
  last.kind = "handle" => last.invoked = <<At(handlers, last.keys).fn>>

\* C3: calling the action reached by keys k1..kn with arguments a1..am hands
\* the store exactly one action, of type k1.k2...kn and args [a1..am].
C3_OneRequestJoinedPath ==
  last.kind = "handle" =>
    last.submitted = <<[type |-> Join(last.keys), args |-> last.args]>>

C3_Witness ==
  /\ last.kind = "handle"
  /\ Len(last.keys) = 2
  /\ Len(last.args) = 2
  /\ last.args[1] # last.args[2]

\* C4: the key paths of the actions tree's functions are the keys of the flat
\* handlers, and the actions tree has the keys and nesting of the handlers.
C4_ActionsMirrorHandlers ==
  {"flat", "actions"} \subseteq built =>
    /\ {Join(p) : p \in LeafPaths(actions)} = KeysOf(flat)
    /\ {At(actions, p).type : p \in LeafPaths(actions)} = KeysOf(flat)
    /\ Shape(actions) = Shape(handlers)

C4_Witness ==
  /\ {"flat", "actions"} \subseteq built
  /\ Len(flat) >= 2
  /\ \E p \in LeafPaths(actions) : Len(p) = 2

\* C5: flattenHandlers yields one entry per function of the tree, keyed by
\* the function's dot-joined path and holding that function, and nothing else.
C5_OneEntryPerLeaf ==
  "flat" \in built =>
    /\ Len(flat) = Cardinality(LeafPaths(handlers))
    /\ \A p \in LeafPaths(handlers) :
         HasKey(flat, Join(p)) /\ Get(flat, Join(p)) = At(handlers, p)
    /\ \A k \in KeysOf(flat) : \E p \in LeafPaths(handlers) : Join(p) = k

\* C6: a transition that runs a handler leaves the value it was given as it
\* was, at every depth: the handler's argument shares no object with it.
C6_PreviousValueUntouched ==
  last.invoked # <<>> =>
    /\ Content(heap, last.prev) = last.prevContent
    /\ Reach(heap, last.copy) \cap Reach(heap, last.prev) = {}

C6_Witness ==
  /\ last.invoked = <<"birthday">>
  /\ Content(heap, state) # last.prevContent

\* C7: on a matched type the next state is the handler's return value when
\* that is not undefined, and the copy the handler was given otherwise.
C7_ReturnValueWins ==
  (last.invoked # <<>> /\ ~last.threw) =>
    state = IF last.ret # Undefined THEN last.ret ELSE last.copy

\* C8: an action whose type is no key of the flat handlers changes nothing:
\* the state stays the very same value, no handler runs, nothing is thrown.
C8_UnmatchedIsNoOp ==
  (last.kind # "none" /\ ~HasKey(flat, last.type)) =>
    /\ state = last.prev
    /\ Content(heap, state) = last.prevContent
    /\ last.invoked = <<>>
    /\ ~last.threw

C8_Witness ==
  /\ last.kind = "raw"
  /\ ~HasKey(flat, last.type)
  /\ state.t = "object"
  /\ state # initialState

\* C9: when a handler throws, the call of the action throws and the store's
\* state is the value it was, unchanged.
C9_ThrowLeavesState ==
  last.handlerThrew =>
    /\ last.threw
    /\ state = last.prev
    /\ Content(heap, state) = last.prevContent

C9_Witness ==
  /\ last.handlerThrew
  /\ last.kind = "handle"
  /\ state # initialState

\* C10: right after create, before any call, the store's state is
\* initialState.
C10_StartsAtInitialState ==
  calls = 0 => (state = initialState /\ Content(heap, state) = expected)

C10_Witness ==
  /\ calls = 0
  /\ state.t = "object"
  /\ flat # <<>>

\* the content of the state one run of the reducer leaves
OutcomeContent(r) == Content(r.heap, r.state)
\* handler g run by the reducer on the value a.val of heap a.heap
MatchedOn(g, args, a) ==
  OutcomeContent(matched(g, a.heap, a.val, args, deepClone(a.heap, a.val)))
\* handler g run by the reducer on a state given as a term
MatchedContent(g, term, args) == MatchedOn(g, args, Alloc(heap, term))
\* the reducer run on the value a.val of heap a.heap
ReducedOn(action, a) ==
  OutcomeContent(makeReducer(initialState, flat, a.heap, a.val, action))
\* the reducer run on a state given as a term
ReducedContent(term, action) == ReducedOn(action, Alloc(heap, term))

\* the same logic written in the other style
Twin ==
  [increment |-> "incrementNew", incrementNew |-> "increment",
   add |-> "addRet", addRet |-> "add"]

\* C11: a handler that changes its argument and returns nothing and one that
\* returns the next state, of the same logic, leave content-equal states.
C11_ReturnOrMutate ==
  (last.invoked # <<>> /\ ~last.threw /\ last.invoked[1] \in DOMAIN Twin) =>
    Content(heap, state) =
      MatchedContent(Twin[last.invoked[1]], last.prevContent, last.submitted[1].args)

C11_Witness ==
  /\ last.invoked = <<"incrementNew">>
  /\ Content(heap, state) # last.prevContent

\* C14: when the call of an action returns, the transition is applied: the
\* store's state is the reducer's result for the state before and the action.
C14_AppliedOnReturn ==
  (last.kind = "handle" /\ ~last.threw) =>
    Content(heap, state) = ReducedContent(last.prevContent, last.submitted[1])

C14_Witness ==
  /\ last.kind = "handle"
  /\ ~last.threw
  /\ Content(heap, state) # last.prevContent

\* C15: the call of an action returns undefined, whatever the handler
\* returns.
C15_HandleReturnsNothing ==
  (last.kind = "handle" /\ ~last.threw) => last.returned = Undefined

C15_Witness ==
  /\ last.kind = "handle"
  /\ ~last.threw
  /\ last.ret # Undefined

\* C19 (as stated): a matched transition never leaves the store holding the
\* same object as before, whether the handler changes its argument or
\* returns a value.
C19_NewIdentity ==
  (last.invoked # <<>> /\ ~last.threw /\ last.prev.t = "object") =>
    state # last.prev

\* the handler returned an object that existed before the transition
ReturnedOld ==
  last.ret.t = "object" /\ last.ret.ref <= last.prevObjects

\* C19 (amended): a matched transition whose handler returns nothing, or a
\* value created during the transition, leaves the store holding a new
\* object.  A handler that returns an object that existed before makes that
\* object the state.
C19_NewIdentityUnlessReturned ==
  (last.invoked # <<>> /\ ~last.threw /\ last.prev.t = "object") =>
    IF ReturnedOld
      THEN state = last.ret
      ELSE state # last.prev /\ (state.t = "object" => state.ref > last.prevObjects)

C19_Witness ==
  /\ last.invoked = <<"resetInitial">>
  /\ ~last.threw
  /\ state = last.prev

\* C20: transitions are atomic and serialized.  Each dispatch runs at most
\* one handler and leaves either the previous state with its content (the
\* transition is discarded) or the reducer's complete result (it is
\* applied), also when the handler itself calls an action: that nested
\* request is rejected by the store and runs no handler.
C20_AtomicTransitions ==
  last.kind # "none" =>
    /\ Len(last.invoked) <= 1
    /\ IF last.threw
         THEN state = last.prev /\ Content(heap, state) = last.prevContent
         ELSE Content(heap, state) =
                ReducedContent(last.prevContent, last.submitted[1])

C20_Witness ==
  /\ last.invoked = <<"reenterCaught">>
  /\ ~last.threw
  /\ Content(heap, state) # last.prevContent

C13_SelectorsMirrorGetters ==
  "selectors" \in built =>
    /\ Shape(selectors) = Shape(getters)
    /\ \A p \in LeafPaths(getters) : At(selectors, p) = Selector(At(getters, p).fn)

C13_Witness ==
  /\ "selectors" \in built
  /\ \E p \in LeafPaths(selectors) : Len(p) = 2
  /\ \E p \in LeafPaths(selectors) : Len(p) = 1

\* a tree whose values are all functions
IsFlat(tree) == \A i \in 1..Len(tree) : isFunction(tree[i].val)

\* C16: flattenHandlers returns a flat tree as it is, returns its own result
\* as it is (it is idempotent), and returns the empty table for the empty
\* tree.
C16_FlattenIdempotent ==
  "flat" \in built =>
    /\ IsFlat(flat)
    /\ flattenHandlers(flat, "") = flat
    /\ IsFlat(handlers) => flat = handlers
    /\ handlers = <<>> => flat = <<>>

C16_Witness ==
  /\ "flat" \in built
  /\ ~IsFlat(handlers)
  /\ Len(flat) >= 2

\* C17: two different functions of a tree never get the same path: their
\* actions dispatch different types and the flat table has an entry for
\* each, whatever strings the keys are.
C17_DistinctPaths ==
  {"flat", "actions"} \subseteq built =>
    /\ \A p, q \in LeafPaths(handlers) :
         p # q => At(actions, p).type # At(actions, q).type
    /\ Cardinality(KeysOf(flat)) = Cardinality(LeafPaths(handlers))

\* C18: getComposeEnhancers never throws; with withDevTools false create
\* uses redux's compose; with withDevTools left out (it defaults to true) or
\* true it uses the extension's compose exactly when there is a window that
\* has one, and redux's compose otherwise.
C18_DevToolsChoice ==
  /\ ~composeEnhancers.threw
  /\ composeEnhancers.value =
       IF /\ env.withDevTools # JSFalse
          /\ env.window # Undefined
          /\ env.window.ext = DevToolsCompose
         THEN DevToolsCompose
         ELSE compose

C18_Witness ==
  /\ env.withDevTools = Undefined
  /\ env.window = Window(DevToolsCompose)
  /\ composeEnhancers.value = DevToolsCompose
  /\ calls > 0

\* C21: a handler that runs for the call of an action is called with the
\* copy of the state and then exactly the arguments the action was called
\* with, in their order.
C21_ArgumentsPassedOn ==
  (last.kind = "handle" /\ last.invoked # <<>>) =>
    /\ Len(last.passed) = 1 + Len(last.args)
    /\ last.passed[1] = last.copy
    /\ Tail(last.passed) = last.args

C21_Witness ==
  /\ last.invoked = <<"addMultiple">>
  /\ last.args[1] # last.args[2]
  /\ ~last.threw

\* C22: nothing depends on the depth the types allow.  A function nested
\* deeper has its entry in the flat handlers under its full dot-joined path,
\* its action dispatches that path, and calling the action runs it.
C22_NoDepthCap ==
  /\ \A p \in LeafPaths(handlers) :
       Len(p) > TypeDepth =>
         /\ HasKey(flat, Join(p))
         /\ Get(flat, Join(p)) = At(handlers, p)
         /\ At(actions, p) = Handle(Join(p))
  /\ (last.kind = "handle" /\ Len(last.keys) > TypeDepth) =>
       /\ last.type = Join(last.keys)
       /\ last.invoked = <<At(handlers, last.keys).fn>>
       /\ ~last.threw
       /\ Content(heap, state) # last.prevContent

C22_Witness ==
  /\ last.kind = "handle"
  /\ Len(last.keys) > TypeDepth
  /\ calls > 1

\* C23: the flat handlers, the actions tree and the selectors tree are those
\* create built: no call of an action, no dispatch (matched, unmatched or
\* throwing) and no call of a selector changes any of them.
C23_BuiltOnce ==
  [][flat' = flat /\ actions' = actions /\ selectors' = selectors]_vars

C23_Witness ==
  /\ calls > 1
  /\ last.kind = "raw"
  /\ ~last.matched
  /\ read.provider = "own"
  /\ Len(flat) > 1

\* C24: every value the store has held, the caller's initialState first,
\* keeps the content it had when the store held it, whatever is called
\* afterwards.
C24_HistoryUntouched ==
  \A x \in held : Content(heap, x.val) = x.content

C24_Witness ==
  /\ Cardinality(held) >= 3
  /\ \A x \in held : x.val.t = "object"
  /\ \E x \in held : x.val = initialState /\ x.content # Content(heap, state)

\* C25 (as stated): a matched transition whose handler changes nothing and
\* returns nothing leaves a state of the same content, whatever the state.
C25_NoopKeepsContent ==
  (last.invoked = <<"noop">> /\ ~last.threw) =>
    Content(heap, state) = last.prevContent

\* a term JSON.stringify and JSON.parse give back as it was: no undefined in it
RECURSIVE JSONSafe(_)
JSONSafe(term) ==
  IF term.t = "object"
    THEN \A k \in DOMAIN term.props : JSONSafe(term.props[k])
    ELSE term.t # "undefined"

\* C25 (amended): the same for a state that JSON can carry; in a state with
\* a property that is undefined the copy lacks that property.
C25_NoopKeepsJSONContent ==
  (last.invoked = <<"noop">> /\ ~last.threw) =>
    IF JSONSafe(last.prevContent)
      THEN Content(heap, state) = last.prevContent
      ELSE Content(heap, state) # last.prevContent /\ JSONSafe(Content(heap, state))

C25_Witness ==
  /\ last.invoked = <<"noop">>
  /\ ~last.threw
  /\ JSONSafe(last.prevContent)
  /\ last.prevContent.t = "object"
  /\ \E k \in DOMAIN last.prevContent.props : last.prevContent.props[k] = Null

\* C26: after a call of an action has failed with its handler's exception
\* the store goes on as before: every later call of an action runs its
\* handler and is applied (or fails by its own handler only), and the call
\* that follows the failure starts from the value held before the failure.
C26_UsableAfterFailure ==
  /\ ~isDispatching
  /\ (last.kind = "handle" /\ last.everFailed) =>
       /\ last.matched
       /\ last.invoked = <<Get(flat, last.type).fn>>
       /\ IF last.threw
            THEN last.handlerThrew /\ state = last.prev
            ELSE Content(heap, state) =
                   ReducedContent(last.prevContent, last.submitted[1])
       /\ last.failedBefore =>
            /\ last.prev = last.beforeFailure
            /\ last.prevContent = last.beforeFailureContent

C26_Witness ==
  /\ last.kind = "handle"
  /\ last.failedBefore
  /\ ~last.threw
  /\ Content(heap, state) # last.prevContent

\* C27: of two stores created from the same handlers tree and the same
\* initialState object, a call of an action of one changes the state of
\* that one only: the other holds the same value, with the same content.
C27_SetupsIndependent ==
  [][/\ last'.kind = "handle" =>
          state2' = state2 /\ Content(heap', state2) = Content(heap, state2)
     /\ last'.kind = "other" =>
          state' = state /\ Content(heap', state) = Content(heap, state)]_vars

C27_Witness ==
  /\ state # initialState
  /\ state2 # initialState
  /\ Content(heap, state) # Content(heap, state2)
  /\ Content(heap, state2) # Content(heap, initialState)

\* C28 (as stated): a selector returns its getter applied to the state of
\* the store of the create call that built it, whichever store the Provider
\* around the component holds.
C28_SelectorReadsOwnStore ==
  read.provider # "" =>
    read.result = ApplyGetter(At(getters, read.keys).fn, heap, state, read.args)

\* C28 (amended): a selector returns its getter applied to the state of the
\* store of the Provider around the component; that is the store of its
\* create call when the component is under that store's Provider.
C28_SelectorReadsProvidedStore ==
  read.provider # "" =>
    read.result =
      ApplyGetter(At(getters, read.keys).fn, heap,
                  IF read.provider = "own" THEN state ELSE state2, read.args)

C28_Witness ==
  /\ read.provider = "other"
  /\ read.result #
       ApplyGetter(At(getters, read.keys).fn, heap, state, read.args)

\* C29: flattenHandlers, makeActions and makeSelectors leave the trees they
\* are given as they are, and neither building the selectors nor calling
\* one changes the store's state or any object.
C29_BuildersOnlyRead ==
  [][/\ handlers' = handlers
     /\ getters' = getters
     /\ (selectors' # selectors \/ (read' # read /\ read' # NoRead)) =>
          state' = state /\ heap' = heap]_vars

C29_Witness ==
  /\ built = AllBuilt
  /\ calls > 0
  /\ read.provider = "own"
  /\ \E p \in LeafPaths(handlers) : Len(p) > 1

\* C30: every function of the trees given, whichever kind of function it
\* is, is taken for a leaf: it has its entry in the flat handlers, its
\* function in the actions and its function in the selectors.
C30_EveryFunctionIsLeaf ==
  /\ "flat" \in built =>
       \A p \in LeafPaths(handlers) : HasKey(flat, Join(p))
  /\ "actions" \in built =>
       \A p \in LeafPaths(handlers) : Callable(At(actions, p))
  /\ "selectors" \in built =>
       \A p \in LeafPaths(getters) : Callable(At(selectors, p))

====
